---- MODULE Spec2Model ----
(***************************************************************************)
(* Model of the OT threat monitoring pipeline:                             *)
(*   CVEFetcher.fetch_latest_cves   (cve_fetcher.py)                       *)
(*   CVEOTAnalyzer.is_ot_related / analyze_with_llm / batch_analyze        *)
(*                                   (cve_analyzer.py)                     *)
(*   AutonomousOTAgent.load_existing_threats / save_threats / run_cycle /  *)
(*   run_continuous                  (agent.py)                            *)
(*                                                                         *)
(* Text is a sequence of one-character strings.  CVSS scores are kept in   *)
(* tenths (9.8 is 98, 0.0 is 0).  Python values that may be None are       *)
(* tagged records (PyNone, PyFloat, PyStr).                                *)
(***************************************************************************)
EXTENDS Integers, Sequences, FiniteSets, TLC

VARIABLES
    pc,             \* driver position: Idle, Fetching, Classifying, Persisting, Stopped, Crashed
    inTry,          \* TRUE once control is inside the try block of run_continuous
    exc,            \* the exception that ended the process, "none" while it runs
    processed_cves, \* CVEFetcher.processed_cves
    returned,       \* history: identifiers returned by this fetcher instance so far
    new_cves,       \* run_cycle's new_cves (the batch being analysed)
    idx,            \* batch_analyze: index of the next candidate
    batch,          \* batch_analyze's local ot_threats
    oracle_log,     \* history: oracle invocations of the current cycle
    ot_threats,     \* AutonomousOTAgent.ot_threats
    file,           \* the output file ot_threats.json
    flushed,        \* history: the store content at the last completed save_threats
    cycles,         \* number of cycles started (also the clock of datetime.now())
    text,           \* relevance filter run: the description text
    found_keywords, \* relevance filter run: result of the keyword comprehension
    related,        \* relevance filter run: result of is_ot_related
    fpc             \* relevance filter run: "off", "input", "found" or "done"

vars == <<pc, inTry, exc, processed_cves, returned, new_cves, idx, batch,
          oracle_log, ot_threats, file, flushed, cycles,
          text, found_keywords, related, fpc>>

pipelineVars == <<pc, inTry, exc, processed_cves, returned, new_cves, idx, batch,
                  oracle_log, ot_threats, file, flushed, cycles>>

filterVars == <<text, found_keywords, related, fpc>>

----------------------------------------------------------------------------
\* Bounds

MaxCycles == 2
MaxPage == 2
MaxTextLen == 5

----------------------------------------------------------------------------
\* Python values

PyNone == [type |-> "NoneType"]
PyFloat(x) == [type |-> "float", val |-> x]
PyStr(s) == [type |-> "str", val |-> s]

Min(a, b) == IF a < b THEN a ELSE b

----------------------------------------------------------------------------
\* Relevance filter (cve_analyzer.py)

ot_keywords ==
    <<
       <<"S","C","A","D","A">>,  \* SCADA
       <<"P","L","C">>,  \* PLC
       <<"H","M","I">>,  \* HMI
       <<"D","C","S">>,  \* DCS
       <<"I","C","S">>,  \* ICS
       <<"R","T","U">>,  \* RTU
       <<"S","i","e","m","e","n","s">>,  \* Siemens
       <<"R","o","c","k","w","e","l","l">>,  \* Rockwell
       <<"A","l","l","e","n","-","B","r","a","d","l","e","y">>,  \* Allen-Bradley
       <<"S","c","h","n","e","i","d","e","r">>,  \* Schneider
       <<"A","B","B">>,  \* ABB
       <<"E","m","e","r","s","o","n">>,  \* Emerson
       <<"M","o","d","b","u","s">>,  \* Modbus
       <<"D","N","P","3">>,  \* DNP3
       <<"O","P","C">>,  \* OPC
       <<"P","R","O","F","I","N","E","T">>,  \* PROFINET
       <<"E","t","h","e","r","N","e","t","/","I","P">>,  \* EtherNet/IP
       <<"B","A","C","n","e","t">>,  \* BACnet
       <<"i","n","d","u","s","t","r","i","a","l">>,  \* industrial
       <<"f","a","c","t","o","r","y">>,  \* factory
       <<"m","a","n","u","f","a","c","t","u","r","i","n","g">>,  \* manufacturing
       <<"c","r","i","t","i","c","a","l"," ","i","n","f","r","a","s","t","r","u","c","t","u","r","e">>,  \* critical infrastructure
       <<"w","a","t","e","r"," ","t","r","e","a","t","m","e","n","t">>,  \* water treatment
       <<"p","o","w","e","r"," ","g","r","i","d">>,  \* power grid
       <<"e","n","e","r","g","y">>,  \* energy
       <<"o","i","l"," ","g","a","s">>,  \* oil gas
       <<"c","h","e","m","i","c","a","l"," ","p","l","a","n","t">>,  \* chemical plant
       <<"O","T">>,  \* OT
       <<"o","p","e","r","a","t","i","o","n","a","l"," ","t","e","c","h","n","o","l","o","g","y">>,  \* operational technology
       <<"i","n","d","u","s","t","r","i","a","l"," ","c","o","n","t","r","o","l">>,  \* industrial control
       <<"p","r","o","c","e","s","s"," ","c","o","n","t","r","o","l">>  \* process control
    >>

UpperToLower ==
    ("A" :> "a") @@ ("B" :> "b") @@ ("C" :> "c") @@ ("D" :> "d") @@ ("E" :> "e") @@ ("F" :> "f")
    @@ ("G" :> "g") @@ ("H" :> "h") @@ ("I" :> "i") @@ ("J" :> "j") @@ ("K" :> "k") @@ ("L" :> "l")
    @@ ("M" :> "m") @@ ("N" :> "n") @@ ("O" :> "o") @@ ("P" :> "p") @@ ("Q" :> "q") @@ ("R" :> "r")
    @@ ("S" :> "s") @@ ("T" :> "t") @@ ("U" :> "u") @@ ("V" :> "v") @@ ("W" :> "w") @@ ("X" :> "x")
    @@ ("Y" :> "y") @@ ("Z" :> "z")

\* str.lower() on one character
LowerChar(c) == IF c \in DOMAIN UpperToLower THEN UpperToLower[c] ELSE c

\* str.lower()
Lower(s) == [i \in 1..Len(s) |-> LowerChar(s[i])]

\* Python's  needle in hay  on strings
Contains(hay, needle) ==
    \E i \in 0..(Len(hay) - Len(needle)) :
        SubSeq(hay, i + 1, i + Len(needle)) = needle

\* k.lower() for every k of self.ot_keywords
keywords_lower == [i \in 1..Len(ot_keywords) |-> Lower(ot_keywords[i])]

\* the comprehension without k.lower(): the keyword is compared as written
RECURSIVE KeywordFilter_CaseSensitive(_, _)
KeywordFilter_CaseSensitive(description_lower, i) ==
    IF i > Len(ot_keywords) THEN <<>>
    ELSE IF Contains(description_lower, ot_keywords[i])
         THEN <<ot_keywords[i]>> \o KeywordFilter_CaseSensitive(description_lower, i + 1)
         ELSE KeywordFilter_CaseSensitive(description_lower, i + 1)

\* the comprehension's loop: the keywords from position i on whose lower-case
\* form occurs in description_lower, in list order
RECURSIVE KeywordFilter(_, _)
KeywordFilter(description_lower, i) ==
    IF i > Len(ot_keywords) THEN <<>>
    ELSE IF Contains(description_lower, keywords_lower[i])
         THEN <<ot_keywords[i]>> \o KeywordFilter(description_lower, i + 1)
         ELSE KeywordFilter(description_lower, i + 1)

\* [k for k in self.ot_keywords if k.lower() in description.lower()]
FoundKeywords(d) == KeywordFilter(Lower(d), 1)

\* the for loop of is_ot_related over keywords_lower, with its early return
RECURSIVE KeywordLoop(_, _)
KeywordLoop(description_lower, i) ==
    IF i > Len(keywords_lower) THEN FALSE
    ELSE IF Contains(description_lower, keywords_lower[i]) THEN TRUE
    ELSE KeywordLoop(description_lower, i + 1)

is_ot_related(d) == KeywordLoop(Lower(d), 1)

----------------------------------------------------------------------------
\* Feed responses (the JSON the NVD API returns), as cve_fetcher.py reads them

Ids == {"CVE-1", "CVE-2"}

\* cve_data['descriptions']: key absent, an empty list, or a first entry
\* whose 'value' is absent, null or a text
DescAbsent == [kind |-> "absent"]
DescEmptyList == [kind |-> "emptylist"]
DescNoValue == [kind |-> "novalue"]
DescValue(v) == [kind |-> "value", value |-> v]

TextOT == <<"o","t"," ","P","L","C">>
TextPlain == <<"w","e","b">>

\* one scoring scheme of cve_data['metrics']: key absent, an empty list, or
\* a first entry with cvssData.baseScore
SchemeAbsent == [kind |-> "absent"]
SchemeEmptyList == [kind |-> "emptylist"]
SchemeScore(x) == [kind |-> "score", baseScore |-> x]

Metrics(a, b, c) == [cvssMetricV31 |-> a, cvssMetricV30 |-> b, cvssMetricV2 |-> c]

\* cve_data['descriptions'] and cve_data['metrics'] of the records the feed
\* may supply
FeedBodies ==
    {[descriptions |-> DescValue(PyStr(TextOT)),
      metrics |-> Metrics(SchemeScore(98), SchemeAbsent, SchemeScore(50))],
     [descriptions |-> DescValue(PyStr(TextOT)),
      metrics |-> Metrics(SchemeAbsent, SchemeAbsent, SchemeAbsent)],
     [descriptions |-> DescValue(PyStr(TextOT)),
      metrics |-> Metrics(SchemeEmptyList, SchemeAbsent, SchemeScore(50))],
     [descriptions |-> DescValue(PyStr(TextPlain)),
      metrics |-> Metrics(SchemeAbsent, SchemeScore(75), SchemeScore(50))],
     [descriptions |-> DescValue(PyNone),
      metrics |-> Metrics(SchemeAbsent, SchemeAbsent, SchemeAbsent)],
     [descriptions |-> DescAbsent,
      metrics |-> Metrics(SchemeAbsent, SchemeAbsent, SchemeAbsent)]}

FeedRecords ==
    {[id |-> i, descriptions |-> b.descriptions, metrics |-> b.metrics] :
        i \in Ids, b \in FeedBodies}

Pages == UNION {[1..n -> FeedRecords] : n \in 0..MaxPage}

\* requests.get / raise_for_status / response.json() raising
TransportError == [kind |-> "error"]
Page(vulns) == [kind |-> "page", vulnerabilities |-> vulns]

FeedResponses == {TransportError} \cup {Page(p) : p \in Pages}

----------------------------------------------------------------------------
\* CVEFetcher.fetch_latest_cves (cve_fetcher.py)

\* cve_data.get('descriptions', [{}])[0].get('value', '')
ExtractDescription(d) ==
    CASE d.kind = "absent" -> [ok |-> TRUE, value |-> PyStr(<<>>)]
      [] d.kind = "emptylist" -> [ok |-> FALSE, value |-> PyNone]
      [] d.kind = "novalue" -> [ok |-> TRUE, value |-> PyStr(<<>>)]
      [] d.kind = "value" -> [ok |-> TRUE, value |-> d.value]

\* metrics[scheme][0]['cvssData']['baseScore']
SchemeBaseScore(s) ==
    IF s.kind = "score" THEN [ok |-> TRUE, value |-> PyFloat(s.baseScore)]
    ELSE [ok |-> FALSE, value |-> PyNone]

\* the if/elif chain over cvssMetricV31, cvssMetricV30, cvssMetricV2
ExtractScore(m) ==
    IF m.cvssMetricV31.kind # "absent" THEN SchemeBaseScore(m.cvssMetricV31)
    ELSE IF m.cvssMetricV30.kind # "absent" THEN SchemeBaseScore(m.cvssMetricV30)
    ELSE IF m.cvssMetricV2.kind # "absent" THEN SchemeBaseScore(m.cvssMetricV2)
    ELSE [ok |-> TRUE, value |-> PyNone]

\* cve_info (published_date, last_modified and references are copies of
\* raw_data's fields and are read by nothing in the pipeline)
CveInfo(v, d, s) ==
    [cve_id |-> v.id, description |-> d, cvss_score |-> s, raw_data |-> v]

\* the for loop over data['vulnerabilities']; ok = FALSE when a record raises
RECURSIVE ParseLoop(_, _, _, _)
ParseLoop(vulns, i, cves, seen) ==
    IF i > Len(vulns) THEN [ok |-> TRUE, cves |-> cves, seen |-> seen]
    ELSE LET v == vulns[i]
             d == ExtractDescription(v.descriptions)
             s == ExtractScore(v.metrics)
         IN  IF v.id \in seen THEN ParseLoop(vulns, i + 1, cves, seen)
             ELSE IF ~d.ok \/ ~s.ok THEN [ok |-> FALSE, cves |-> cves, seen |-> seen]
             ELSE ParseLoop(vulns, i + 1, Append(cves, CveInfo(v, d.value, s.value)),
                            seen \cup {v.id})

\* the whole call: try ... except Exception: return []
fetch_latest_cves(resp, seen) ==
    IF resp.kind = "error" THEN [cves |-> <<>>, seen |-> seen]
    ELSE LET r == ParseLoop(resp.vulnerabilities, 1, <<>>, seen)
         IN  IF r.ok THEN [cves |-> r.cves, seen |-> r.seen]
             ELSE [cves |-> <<>>, seen |-> r.seen]

----------------------------------------------------------------------------
\* The oracle (OpenAI Responses API) as analyze_with_llm sees it

\* the parsed response object; affected_systems stands for the fields the
\* analyzer never reads
OracleObjects ==
    {[affected_systems |-> "PLC", is_ot_related |-> TRUE,
      risk_explanation |-> "Remote attackers can halt the production line"],
     [affected_systems |-> "PLC", is_ot_related |-> TRUE],
     [affected_systems |-> "PLC", is_ot_related |-> FALSE,
      risk_explanation |-> "Not OT specific"],
     [affected_systems |-> "PLC"]}

\* responses.create raising; output_text that json.loads rejects; output_text
\* that parses to a JSON value other than an object; a parsed object
OracleOutcomes ==
    {[kind |-> "raise"], [kind |-> "badjson"], [kind |-> "nonobject"]}
    \cup {[kind |-> "object", obj |-> o] : o \in OracleObjects}

\* dict.get(key, default)
DictGet(d, key, default) == IF key \in DOMAIN d THEN d[key] ELSE default

----------------------------------------------------------------------------
\* CVEOTAnalyzer.analyze_with_llm / batch_analyze (cve_analyzer.py)

ExcerptLen == 500
NoInsight == "No insight provided"
FallbackInsight == "Rule-based OT detection (LLM unavailable)"

\* OTThreat(...)
OTThreat(cve_id, cvss_score, desc, ai_insight, kws, timestamp) ==
    [cve_id |-> cve_id, cvss_score |-> cvss_score, description |-> desc,
     ai_insight |-> ai_insight, ot_keywords_found |-> kws, timestamp |-> timestamp]

\* description[:500]
Excerpt(d) == SubSeq(d, 1, Min(ExcerptLen, Len(d)))

\* the try block failing closed: the except branch returns None
OracleVerdict_FailClosed(cve_id, cvss_score, d, found, outcome, now) ==
    IF outcome.kind = "object"
    THEN IF DictGet(outcome.obj, "is_ot_related", FALSE)
         THEN <<OTThreat(cve_id, cvss_score, Excerpt(d),
                         DictGet(outcome.obj, "risk_explanation", NoInsight),
                         found, now)>>
         ELSE <<>>
    ELSE <<>>

\* the try block without the test of is_ot_related
OracleVerdict_IgnoreFlag(cve_id, cvss_score, d, found, outcome, now) ==
    IF outcome.kind = "object"
    THEN <<OTThreat(cve_id, cvss_score, Excerpt(d),
                    DictGet(outcome.obj, "risk_explanation", NoInsight),
                    found, now)>>
    ELSE <<OTThreat(cve_id, cvss_score, Excerpt(d), FallbackInsight, found, now)>>

\* the try block after the keyword check: the Optional[OTThreat] it returns,
\* as a sequence of zero or one threat
OracleVerdict(cve_id, cvss_score, d, found, outcome, now) ==
    IF outcome.kind = "object"
    THEN IF DictGet(outcome.obj, "is_ot_related", FALSE)
         THEN <<OTThreat(cve_id, cvss_score, Excerpt(d),
                         DictGet(outcome.obj, "risk_explanation", NoInsight),
                         found, now)>>
         ELSE <<>>
    ELSE <<OTThreat(cve_id, cvss_score, Excerpt(d), FallbackInsight, found, now)>>

\* the keyword check skipped: every candidate goes on to the oracle
Prescreen_NoFilter(cve_data) ==
    LET d == cve_data["description"]
    IN  IF d.type = "NoneType"
        THEN [raised |-> TRUE, found |-> <<>>]
        ELSE [raised |-> FALSE, found |-> ot_keywords]

\* analyze_with_llm up to the keyword check.  raised: description.lower() on
\* None raises AttributeError (outside the try); found: found_keywords
Prescreen(cve_data) ==
    LET d == cve_data["description"]
    IN  IF d.type = "NoneType"
        THEN [raised |-> TRUE, found |-> <<>>]
        ELSE [raised |-> FALSE, found |-> FoundKeywords(d.val)]

\* analyze_with_llm from the try on, entered when found_keywords is not empty
analyze_with_llm(cve_data, found, outcome, now) ==
    OracleVerdict(cve_data["cve_id"], DictGet(cve_data, "cvss_score", PyFloat(0)),
                  cve_data["description"].val, found, outcome, now)

----------------------------------------------------------------------------
\* Threat store (agent.py)

\* any(t.cve_id == threat.cve_id for t in self.ot_threats)
Exists(store, cve_id) == \E j \in 1..Len(store) : store[j].cve_id = cve_id

\* the for loop without the already-exists check
RECURSIVE MergeLoop_NoDedupe(_, _, _)
MergeLoop_NoDedupe(store, threats, i) ==
    IF i > Len(threats) THEN store
    ELSE MergeLoop_NoDedupe(Append(store, threats[i]), threats, i + 1)

\* run_cycle step 3: the for loop appending the threats not already stored
RECURSIVE MergeLoop(_, _, _)
MergeLoop(store, threats, i) ==
    IF i > Len(threats) THEN store
    ELSE MergeLoop(IF ~Exists(store, threats[i].cve_id)
                   THEN Append(store, threats[i]) ELSE store,
                   threats, i + 1)

\* JSON values
JNull == [json |-> "null"]
JNumber(x) == [json |-> "number", v |-> x]
JString(s) == [json |-> "string", v |-> s]
JArray(a) == [json |-> "array", v |-> a]

\* an encoding that writes a missing score as the number 0
EncodeScore_NullAsZero(x) == IF x.type = "NoneType" THEN JNumber(0) ELSE JNumber(x.val)

\* json encoding of a float-or-None
EncodeScore(x) == IF x.type = "NoneType" THEN JNull ELSE JNumber(x.val)

\* json decoding of a number-or-null
DecodeScore(j) == IF j.json = "null" THEN PyNone ELSE PyFloat(j.v)

\* asdict(threat) written by json.dump: one JSON object per threat
EncodeThreat(t) ==
    [cve_id |-> JString(t.cve_id),
     cvss_score |-> EncodeScore(t.cvss_score),
     description |-> JString(t.description),
     ai_insight |-> JString(t.ai_insight),
     ot_keywords_found |->
        JArray([i \in 1..Len(t.ot_keywords_found) |-> JString(t.ot_keywords_found[i])]),
     timestamp |-> JString(t.timestamp)]

\* OTThreat(**item) on one object read by json.load
DecodeThreat(o) ==
    OTThreat(o.cve_id.v, DecodeScore(o.cvss_score), o.description.v, o.ai_insight.v,
             [i \in 1..Len(o.ot_keywords_found.v) |-> o.ot_keywords_found.v[i].v],
             o.timestamp.v)

\* the file: absent, or the objects written so far and whether the closing
\* bracket was written (a file without it is not valid JSON)
NoFile == [exists |-> FALSE]
FileOf(items, complete) == [exists |-> TRUE, items |-> items, complete |-> complete]

\* save_threats: the content json.dump writes
save_threats(store) == [i \in 1..Len(store) |-> EncodeThreat(store[i])]

\* load_existing_threats: ok = FALSE when json.load raises JSONDecodeError
load_existing_threats(f) ==
    IF ~f.exists THEN [ok |-> TRUE, threats |-> <<>>]
    ELSE IF ~f.complete THEN [ok |-> FALSE, threats |-> <<>>]
    ELSE [ok |-> TRUE, threats |-> [i \in 1..Len(f.items) |-> DecodeThreat(f.items[i])]]

----------------------------------------------------------------------------
\* The driver: AutonomousOTAgent.__init__, run_cycle, run_continuous (agent.py)

Alphabet == {"O", "T", "P", "L", "C", "o", "p"}
Texts == UNION {[1..n -> Alphabet] : n \in 0..MaxTextLen}

Init ==
    /\ pc = "Idle"
    /\ inTry = FALSE
    /\ exc = "none"
    /\ processed_cves = {}
    /\ returned = {}
    /\ new_cves = <<>>
    /\ idx = 1
    /\ batch = <<>>
    /\ oracle_log = <<>>
    /\ ot_threats = <<>>
    /\ file = NoFile
    /\ flushed = <<>>
    /\ cycles = 0
    /\ text = <<>>
    /\ found_keywords = <<>>
    /\ related = FALSE
    /\ fpc = "off"

\* run_cycle is entered: at startup (outside the try) or after the sleep
StartCycle ==
    /\ pc = "Idle"
    /\ cycles < MaxCycles
    /\ pc' = "Fetching"
    /\ cycles' = cycles + 1
    /\ UNCHANGED <<inTry, exc, processed_cves, returned, new_cves, idx, batch,
                   oracle_log, ot_threats, file, flushed>>
    /\ UNCHANGED filterVars

\* run_cycle step 1: fetch_latest_cves returns; "No new CVEs found" ends the cycle
Fetch ==
    /\ pc = "Fetching"
    /\ \E resp \in FeedResponses :
         LET r == fetch_latest_cves(resp, processed_cves)
         IN  /\ processed_cves' = r.seen
             /\ returned' = returned \cup {r.cves[i].cve_id : i \in 1..Len(r.cves)}
             /\ new_cves' = r.cves
             /\ pc' = IF r.cves = <<>> THEN "Idle" ELSE "Classifying"
             /\ inTry' = IF r.cves = <<>> THEN TRUE ELSE inTry
    /\ idx' = 1
    /\ batch' = <<>>
    /\ oracle_log' = <<>>
    /\ UNCHANGED <<exc, ot_threats, file, flushed, cycles>>
    /\ UNCHANGED filterVars

\* batch_analyze: one iteration of its loop.  An AttributeError leaves
\* batch_analyze, run_cycle and run_continuous (which catches KeyboardInterrupt
\* only); a candidate without keywords returns None before the oracle is
\* called; otherwise the oracle is called and answers with some outcome.
AnalyzeNext ==
    /\ pc = "Classifying"
    /\ idx <= Len(new_cves)
    /\ LET cve == new_cves[idx]
           pre == Prescreen(cve)
       IN  IF pre.raised
           THEN /\ pc' = "Crashed"
                /\ exc' = "AttributeError"
                /\ new_cves' = <<>>
                /\ idx' = 1
                /\ batch' = <<>>
                /\ oracle_log' = <<>>
           ELSE /\ IF pre.found = <<>>
                   THEN UNCHANGED <<batch, oracle_log>>
                   ELSE \E outcome \in OracleOutcomes :
                          /\ batch' = batch \o analyze_with_llm(cve, pre.found,
                                                                outcome, cycles)
                          /\ oracle_log' = Append(oracle_log,
                                                  [cve_id |-> cve.cve_id,
                                                   outcome |-> outcome])
                /\ idx' = idx + 1
                /\ UNCHANGED <<pc, exc, new_cves>>
    /\ UNCHANGED <<inTry, processed_cves, returned, ot_threats, file, flushed, cycles>>
    /\ UNCHANGED filterVars

\* run_cycle steps 3 and 4 up to open(self.output_file, 'w'), which truncates
Merge ==
    /\ pc = "Classifying"
    /\ idx > Len(new_cves)
    /\ ot_threats' = MergeLoop(ot_threats, batch, 1)
    /\ file' = FileOf(<<>>, FALSE)
    /\ pc' = "Persisting"
    /\ UNCHANGED <<inTry, exc, processed_cves, returned, new_cves, idx, batch,
                   oracle_log, flushed, cycles>>
    /\ UNCHANGED filterVars

\* save_threats: json.dump completes and the file is closed; run_cycle returns
Save ==
    /\ pc = "Persisting"
    /\ file' = FileOf(save_threats(ot_threats), TRUE)
    /\ pc' = "Idle"
    /\ flushed' = ot_threats
    /\ inTry' = TRUE
    /\ new_cves' = <<>>
    /\ idx' = 1
    /\ batch' = <<>>
    /\ oracle_log' = <<>>
    /\ UNCHANGED <<exc, processed_cves, returned, ot_threats, cycles>>
    /\ UNCHANGED filterVars

\* Ctrl+C at a blocking point: the feed request, the oracle request, the file
\* write, or time.sleep.  Only the loop inside the try catches it; during the
\* write the with block closes the file with what json.dump wrote so far.
\* The locals of the unwound frames are gone.
Interrupt ==
    /\ \/ pc \in {"Fetching", "Classifying", "Persisting"}
       \/ pc = "Idle" /\ inTry
    /\ exc' = "KeyboardInterrupt"
    /\ pc' = IF inTry THEN "Stopped" ELSE "Crashed"
    /\ IF pc = "Persisting"
       THEN \E n \in 0..Len(ot_threats) :
               file' = FileOf(SubSeq(save_threats(ot_threats), 1, n), FALSE)
       ELSE file' = file
    /\ new_cves' = <<>>
    /\ idx' = 1
    /\ batch' = <<>>
    /\ oracle_log' = <<>>
    /\ UNCHANGED <<inTry, processed_cves, returned, ot_threats, flushed, cycles>>
    /\ UNCHANGED filterVars

\* the process is started again: AutonomousOTAgent.__init__ builds a new
\* fetcher and loads the file; JSONDecodeError is not caught
Restart ==
    /\ pc \in {"Stopped", "Crashed"}
    /\ LET r == load_existing_threats(file)
       IN  /\ ot_threats' = r.threats
           /\ pc' = IF r.ok THEN "Idle" ELSE "Crashed"
           /\ exc' = IF r.ok THEN "none" ELSE "JSONDecodeError"
    /\ inTry' = FALSE
    /\ processed_cves' = {}
    /\ returned' = {}
    /\ new_cves' = <<>>
    /\ idx' = 1
    /\ batch' = <<>>
    /\ oracle_log' = <<>>
    /\ UNCHANGED <<file, flushed, cycles>>
    /\ UNCHANGED filterVars

Next == StartCycle \/ Fetch \/ AnalyzeNext \/ Merge \/ Save \/ Interrupt \/ Restart

Spec == Init /\ [][Next]_vars

----------------------------------------------------------------------------
\* The relevance filter applied to every bounded text

InitFilter ==
    /\ pc = "Idle"
    /\ inTry = FALSE
    /\ exc = "none"
    /\ processed_cves = {}
    /\ returned = {}
    /\ new_cves = <<>>
    /\ idx = 1
    /\ batch = <<>>
    /\ oracle_log = <<>>
    /\ ot_threats = <<>>
    /\ file = NoFile
    /\ flushed = <<>>
    /\ cycles = 0
    /\ text \in Texts
    /\ found_keywords = <<>>
    /\ related = FALSE
    /\ fpc = "input"

\* analyze_with_llm's keyword comprehension on the text
FindKeywords ==
    /\ fpc = "input"
    /\ found_keywords' = FoundKeywords(text)
    /\ fpc' = "found"
    /\ UNCHANGED <<text, related>>
    /\ UNCHANGED pipelineVars

\* is_ot_related on the same text
CheckRelated ==
    /\ fpc = "found"
    /\ related' = is_ot_related(text)
    /\ fpc' = "done"
    /\ UNCHANGED <<text, found_keywords>>
    /\ UNCHANGED pipelineVars

NextFilter == FindKeywords \/ CheckRelated

SpecFilter == InitFilter /\ [][NextFilter]_vars

----------------------------------------------------------------------------
\* Vocabulary of the properties

IdsOf(seq) == {seq[i].cve_id : i \in 1..Len(seq)}

UniqueIds(seq) ==
    \A i, j \in 1..Len(seq) : seq[i].cve_id = seq[j].cve_id => i = j

IsPrefix(a, b) == Len(a) <= Len(b) /\ \A i \in 1..Len(a) : a[i] = b[i]

\* the threats of a sequence that carry a given identifier
ThreatsFor(seq, id) == {i \in 1..Len(seq) : seq[i].cve_id = id}

\* two characters equal up to letter case
SameLetter(a, b) ==
    \/ a = b
    \/ a \in DOMAIN UpperToLower /\ UpperToLower[a] = b
    \/ b \in DOMAIN UpperToLower /\ UpperToLower[b] = a

\* term occurs in txt as a case-insensitive substring
Occurs(term, txt) ==
    \E q \in 1..(Len(txt) - Len(term) + 1) :
        \A j \in 1..Len(term) : SameLetter(txt[q + j - 1], term[j])

\* the sub-list of the fixed term list whose terms occur in txt
MatchedTerms(txt) == SelectSeq(ot_keywords, LAMBDA k : Occurs(k, txt))

\* some term of the fixed list occurs in txt
AnyTerm(txt) == \E k \in 1..Len(ot_keywords) : Occurs(ot_keywords[k], txt)

\* a candidate whose description is a text matching no term
NoMatch(c) == c.description.type = "str" /\ ~AnyTerm(c.description.val)

\* a candidate whose description is a text matching some term
HasMatch(c) == c.description.type = "str" /\ AnyTerm(c.description.val)

\* the oracle failed: it raised, or its response is not the structured object
OracleFailed(outcome) == outcome.kind # "object"

\* the oracle answered with a relevance flag of false, or with none
OracleDeclined(outcome) ==
    /\ outcome.kind = "object"
    /\ ("is_ot_related" \notin DOMAIN outcome.obj \/ outcome.obj.is_ot_related = FALSE)

\* the step of run_cycle that appends the batch to the store
MergeStep == pc = "Classifying" /\ pc' = "Persisting"

\* the step that starts a new process
RestartStep == pc \in {"Stopped", "Crashed"}

\* the score the feed supplied: the first present scheme, most recent first
FeedSupplied(m) ==
    \/ m.cvssMetricV31.kind = "score"
    \/ m.cvssMetricV30.kind = "score"
    \/ m.cvssMetricV2.kind = "score"

FeedScore(m) ==
    IF m.cvssMetricV31.kind = "score" THEN m.cvssMetricV31.baseScore
    ELSE IF m.cvssMetricV30.kind = "score" THEN m.cvssMetricV30.baseScore
    ELSE m.cvssMetricV2.baseScore

----------------------------------------------------------------------------
\* C1: the store holds at most one entry per identifier and it is the first
\* one appended: outside a restart the store only grows at its end, and a
\* batch whose identifiers are all stored already leaves it unchanged.
C1_FirstWriteWins ==
    [][ /\ UniqueIds(ot_threats')
        /\ ~RestartStep =>
             /\ IsPrefix(ot_threats, ot_threats')
             /\ (MergeStep /\ IdsOf(batch) \subseteq IdsOf(ot_threats))
                   => ot_threats' = ot_threats ]_vars

\* a flush is under way after a batch re-confirmed a stored identifier with
\* a threat that differs from the stored one, and the store kept its entry
C1_Witness ==
    /\ pc = "Persisting"
    /\ \E i \in 1..Len(batch) :
         /\ batch[i].cve_id \in IdsOf(flushed)
         /\ \E j \in 1..Len(ot_threats) :
              /\ ot_threats[j].cve_id = batch[i].cve_id
              /\ ot_threats[j] # batch[i]
    /\ Len(ot_threats) = Len(flushed)

\* C2: the seen-set equals the set of identifiers this fetcher instance has
\* returned so far (a record is withheld only when it was returned before).
C2_SeenEqualsReturned == processed_cves = returned

\* C3: fail-open. For every oracle invocation that failed, the batch holds
\* exactly one threat for that candidate, with the fallback marker and the
\* matched terms of the candidate's description.
C3_FailOpen ==
    \A k \in 1..Len(oracle_log) :
        OracleFailed(oracle_log[k].outcome) =>
            \E i \in 1..Len(new_cves) :
                /\ new_cves[i].cve_id = oracle_log[k].cve_id
                /\ HasMatch(new_cves[i])
                /\ Cardinality(ThreatsFor(batch, oracle_log[k].cve_id)) = 1
                /\ \A n \in ThreatsFor(batch, oracle_log[k].cve_id) :
                     /\ batch[n].ai_insight = "Rule-based OT detection (LLM unavailable)"
                     /\ batch[n].ot_keywords_found = MatchedTerms(new_cves[i].description.val)

\* the oracle raised for the first candidate of a batch and returned
\* unparseable text for the second, and the batch holds a fallback threat
\* for each
C3_Witness ==
    /\ pc = "Classifying"
    /\ Len(oracle_log) = 2
    /\ oracle_log[1].outcome.kind = "raise"
    /\ oracle_log[2].outcome.kind = "badjson"
    /\ Len(batch) = 2
    /\ \A n \in 1..2 : batch[n].ai_insight = FallbackInsight

\* C4: the oracle is invoked, and a threat produced, only for candidates the
\* filter matched, and a cycle whose candidates all match no term leaves the
\* store unchanged.
C4_FilterBeforeOracle ==
    [][ /\ \A k \in 1..Len(oracle_log') :
             \E i \in 1..Len(new_cves') :
                /\ i < idx'
                /\ new_cves'[i].cve_id = oracle_log'[k].cve_id
                /\ HasMatch(new_cves'[i])
        /\ \A n \in 1..Len(batch') :
             \E i \in 1..Len(new_cves') :
                /\ new_cves'[i].cve_id = batch'[n].cve_id
                /\ HasMatch(new_cves'[i])
        /\ (MergeStep /\ \A i \in 1..Len(new_cves) : NoMatch(new_cves[i]))
              => (ot_threats' = ot_threats /\ oracle_log = <<>> /\ batch = <<>>) ]_vars

\* a cycle with two candidates, neither matching a term, reached its flush
\* without an oracle call and with the store as it was
C4_Witness ==
    /\ pc = "Persisting"
    /\ Len(new_cves) = 2
    /\ \A i \in 1..Len(new_cves) : NoMatch(new_cves[i])
    /\ oracle_log = <<>>
    /\ ot_threats = flushed

\* C5: every threat carries a numeric score: the feed's score when the feed
\* supplied one, 0.0 when it supplied none.
C5_NumericScore ==
    /\ \A n \in 1..Len(ot_threats) : ot_threats[n].cvss_score.type = "float"
    /\ \A n \in 1..Len(batch) :
         \A i \in 1..Len(new_cves) :
            new_cves[i].cve_id = batch[n].cve_id =>
                batch[n].cvss_score =
                    IF FeedSupplied(new_cves[i].raw_data.metrics)
                    THEN PyFloat(FeedScore(new_cves[i].raw_data.metrics))
                    ELSE PyFloat(0)

\* C6: an interrupt always ends in the clean shutdown state with the file
\* whole.
C6_CleanShutdown ==
    exc = "KeyboardInterrupt" =>
        (pc = "Stopped" /\ (file.exists => file.complete))

\* C7: no feed or oracle failure leaves a monitoring cycle as an exception.
C7_NoFailureEscapes == exc # "AttributeError"

\* C8: a candidate the oracle declined yields no threat, and the store gains
\* no entry for it.
C8_OracleOverrides ==
    [][ \A k \in 1..Len(oracle_log') :
          OracleDeclined(oracle_log'[k].outcome) =>
             /\ ThreatsFor(batch', oracle_log'[k].cve_id) = {}
             /\ MergeStep =>
                  (oracle_log'[k].cve_id \in IdsOf(ot_threats')
                     => oracle_log'[k].cve_id \in IdsOf(ot_threats)) ]_vars

\* a flush is under way after the oracle declined a matched candidate (once
\* with a false flag, once with none) and the store has no entry for either
C8_Witness ==
    /\ pc = "Persisting"
    /\ Len(oracle_log) = 2
    /\ \A k \in 1..Len(oracle_log) :
         /\ OracleDeclined(oracle_log[k].outcome)
         /\ oracle_log[k].cve_id \notin IdsOf(ot_threats)
    /\ \E k \in 1..Len(oracle_log) : "is_ot_related" \notin DOMAIN oracle_log[k].outcome.obj
    /\ \E k \in 1..Len(oracle_log) : "is_ot_related" \in DOMAIN oracle_log[k].outcome.obj

\* C9: round trip. A process started on a flushed file holds the sequence of
\* threats that was flushed, field for field and in order.
C9_RoundTrip ==
    (pc = "Idle" /\ ~inTry /\ file.exists) => ot_threats = flushed

\* a new process loaded a file of two threats, one of them without a score
C9_Witness ==
    /\ pc = "Idle"
    /\ ~inTry
    /\ file.exists
    /\ Len(ot_threats) = 2
    /\ \E n \in 1..Len(ot_threats) : ot_threats[n].cvss_score.type = "NoneType"
    /\ \E n \in 1..Len(ot_threats) : ot_threats[n].cvss_score.type = "float"

\* C10: found_keywords is the sub-list of the term list whose terms occur in
\* the text as a case-insensitive substring, in list order, and is_ot_related
\* is true exactly when it is not empty.
C10_MatchedTerms ==
    /\ fpc \in {"found", "done"} => found_keywords = MatchedTerms(text)
    /\ fpc = "done" => (related <=> found_keywords # <<>>)

\* a text where OT occurs before OPC, in mixed case: the result is in list order
C10_Witness ==
    /\ fpc = "done"
    /\ text = <<"o","T","O","p","C">>
    /\ found_keywords = <<<<"O","P","C">>, <<"O","T">>>>
    /\ related

\* a step on which no Ctrl+C was delivered
Uninterrupted == exc' # "KeyboardInterrupt"

\* C11: a cycle flushes exactly when its fetch returned a candidate. A fetch
\* without candidates goes straight back to Idle and leaves the file alone; a
\* fetch with candidates goes on to classification, which always goes on to
\* the flush, which ends in Idle with the whole store written; the file is
\* written by nothing else, and a cycle starts only from Idle.
C11_FlushIffCandidates ==
    [][ /\ (pc = "Fetching" /\ Uninterrupted) =>
              IF new_cves' = <<>>
              THEN pc' = "Idle" /\ file' = file /\ batch' = <<>> /\ oracle_log' = <<>>
              ELSE pc' = "Classifying" /\ file' = file
        /\ (pc = "Classifying" /\ Uninterrupted) =>
              pc' \in {"Classifying", "Persisting"}
        /\ (pc = "Persisting" /\ Uninterrupted) =>
              (pc' = "Idle" /\ file' = FileOf(save_threats(ot_threats), TRUE))
        /\ file' # file => pc \in {"Classifying", "Persisting"}
        /\ pc' = "Fetching" => pc = "Idle" ]_vars

====
